---- MODULE Spec2Model ----
(***************************************************************************)
(* A model of src/src/agent_manager.py: the completion invocation shared   *)
(* by the agents (BaseAgent.__call__), the Task Creator, the Task          *)
(* Prioritizer with the Task Store it rewrites, the Context Retriever and  *)
(* the Task Executor.                                                      *)
(*                                                                         *)
(* Text is a sequence of characters, each its Unicode code point, so that   *)
(* str.strip and str.split are computed character by character as Python   *)
(* computes them: "1.\n" is <<49, 46, 10>>.                                 *)
(* A failed call is an outcome record whose error names the exception the  *)
(* call raises; "none" is a normal return.                                 *)
(***************************************************************************)
EXTENDS Integers, Sequences, FiniteSets, TLC

VARIABLES
    completion,   \* what the Completion Provider answers: [ok, text]
    embedding,    \* what the Embedding Provider answers: [ok]
    results,      \* what the Vector Index answers to a query: [ok, matches]
    task_list,    \* TaskManager.task_list, the Task Store
    last          \* the most recent operation, its arguments and its outcome

vars == <<completion, embedding, results, task_list, last>>

-----------------------------------------------------------------------------
(* Bounds of the model *)

MaxLen == 6
MaxStore == 2
MaxMatches == 3
MaxTemplateLen == 2

(* The characters of the source's literals: '\n' (lines 61, 101), '.' (line
   104) and ', ' (line 39) *)
NL == 10
Dot == 46
Comma == 44
Space == 32

(* The characters completion texts are drawn from: the digit 1, the dot, the
   space, the newline, and the form feed (12), which str.strip removes and
   str.split('\n') does not split at *)
Chars == {49, Dot, Space, NL, 12}

-----------------------------------------------------------------------------
(* Python's str operations on text *)

(* The characters str.strip() removes, the ones str.isspace() holds of:
   U+0009-U+000D, U+001C-U+0020, U+0085, U+00A0, U+1680, U+2000-U+200A,
   U+2028, U+2029, U+202F, U+205F, U+3000 *)
Whitespace ==
    (9..13) \cup (28..32) \cup {133, 160, 5760} \cup (8192..8202)
        \cup {8232, 8233, 8239, 8287, 12288}

RECURSIVE LStrip(_)
LStrip(s) ==
    IF s # <<>> /\ Head(s) \in Whitespace THEN LStrip(Tail(s)) ELSE s

RECURSIVE RStrip(_)
RStrip(s) ==
    IF s # <<>> /\ s[Len(s)] \in Whitespace
    THEN RStrip(SubSeq(s, 1, Len(s) - 1))
    ELSE s

(* s.strip() *)
Strip(s) == RStrip(LStrip(s))

(* s.find(c) + 1: the position of the first c in s, 0 when there is none *)
Find(s, c) ==
    IF \E i \in 1..Len(s) : s[i] = c
    THEN CHOOSE i \in 1..Len(s) : s[i] = c /\ \A j \in 1..(i - 1) : s[j] # c
    ELSE 0

(* s.split(sep, maxsplit); maxsplit = -1 is s.split(sep) *)
RECURSIVE Split(_, _, _)
Split(s, sep, maxsplit) ==
    LET i == Find(s, sep)
    IN  IF maxsplit = 0 \/ i = 0
        THEN <<s>>
        ELSE <<SubSeq(s, 1, i - 1)>>
                 \o Split(SubSeq(s, i + 1, Len(s)), sep, maxsplit - 1)

(* All texts of length at most n over the characters cs *)
RECURSIVE TextsUpTo(_, _)
TextsUpTo(cs, n) ==
    IF n = 0
    THEN {<<>>}
    ELSE LET shorter == TextsUpTo(cs, n - 1)
         IN  shorter \cup {Append(t, c) : t \in shorter, c \in cs}

-----------------------------------------------------------------------------
(* BaseAgent.__call__: render the prompt template, then ask the provider *)

(* A template is a sequence of pieces: literal text or a named placeholder *)
Lit(t) == [kind |-> "lit", v |-> t]
Field(n) == [kind |-> "field", v |-> n]

(* The placeholder names a template requires *)
Placeholders(prompt) ==
    {prompt[i].v : i \in {j \in 1..Len(prompt) : prompt[j].kind = "field"}}

(* str.format with keyword arguments, on a template all of whose
   placeholders are given *)
Format(prompt, kwargs) ==
    [i \in 1..Len(prompt) |->
        IF prompt[i].kind = "field" THEN kwargs[prompt[i].v] ELSE prompt[i].v]

(* One outcome of a call: the exception raised ("none": returned), whether a
   request was issued to the Completion Provider and with which prompt, and
   the text returned *)
Outcome(error, sent, prompt, text) ==
    [error |-> error, sent |-> sent, prompt |-> prompt, text |-> text]

(* A rendering that leaves a placeholder it has no value for empty *)
FormatLenient(prompt, kwargs) ==
    [i \in 1..Len(prompt) |->
        IF prompt[i].kind = "field"
        THEN IF prompt[i].v \in DOMAIN kwargs THEN kwargs[prompt[i].v] ELSE ""
        ELSE prompt[i].v]

(* A call that renders leniently, so that the request always goes out *)
BaseAgent__call__Lenient(config, kwargs, provider) ==
    LET prompt == FormatLenient(config.prompt, kwargs)
    IN  IF ~provider.ok
        THEN Outcome("ProviderError", TRUE, prompt, <<>>)
        ELSE Outcome("none", TRUE, prompt, Strip(provider.text))

BaseAgent__call__(config, kwargs, provider) ==
    IF ~(Placeholders(config.prompt) \subseteq DOMAIN kwargs)
    THEN Outcome("KeyError", FALSE, <<>>, <<>>)
    ELSE LET prompt == Format(config.prompt, kwargs)
         IN  IF ~provider.ok
             THEN Outcome("ProviderError", TRUE, prompt, <<>>)
             ELSE Outcome("none", TRUE, prompt, Strip(provider.text))

-----------------------------------------------------------------------------
(* TaskManager: the Task Store *)

(* TaskManager.add_task *)
add_task(store, task) == Append(store, task)

(* A task the caller seeds the store with *)
(* id "0", name "s" *)
SeedTask == [task_id |-> <<48>>, task_name |-> <<115>>]

-----------------------------------------------------------------------------
(* PrioritizationAgent *)

_get_task_names(store) == [i \in 1..Len(store) |-> store[i].task_name]

(* The body of the for loop of _parse_response, over the remaining lines *)
RECURSIVE ParseTaskStrings(_, _)
ParseTaskStrings(task_strings, tasks) ==
    IF task_strings = <<>>
    THEN tasks
    ELSE LET task_parts == Split(Strip(Head(task_strings)), Dot, 1)
         IN  ParseTaskStrings(
                 Tail(task_strings),
                 IF Len(task_parts) = 2
                 THEN Append(tasks, [task_id   |-> Strip(task_parts[1]),
                                     task_name |-> Strip(task_parts[2])])
                 ELSE tasks)

PrioritizationAgent_parse_response(response_text) ==
    ParseTaskStrings(Split(response_text, NL, -1), <<>>)

RECURSIVE AddTasks(_, _)
AddTasks(store, new_tasks) ==
    IF new_tasks = <<>>
    THEN store
    ELSE AddTasks(add_task(store, Head(new_tasks)), Tail(new_tasks))

(* A rewrite that forgets to start from an empty deque *)
_update_task_manager_Merge(store, new_tasks) == AddTasks(store, new_tasks)

_update_task_manager(store, new_tasks) == AddTasks(<<>>, new_tasks)

(* A prioritization that empties the store before asking the provider *)
prioritize_tasks_ClearFirst(config, this_task_id, objective, store, provider) ==
    LET r == BaseAgent__call__(
                 config,
                 [task_names   |-> _get_task_names(store),
                  objective    |-> objective,
                  next_task_id |-> this_task_id + 1],
                 provider)
    IN  [call  |-> r,
         store |-> IF r.error = "none"
                   THEN _update_task_manager(
                            <<>>, PrioritizationAgent_parse_response(r.text))
                   ELSE <<>>]

(* prioritize_tasks: the outcome of the completion call and the store after *)
prioritize_tasks(config, this_task_id, objective, store, provider) ==
    LET r == BaseAgent__call__(
                 config,
                 [task_names   |-> _get_task_names(store),
                  objective    |-> objective,
                  next_task_id |-> this_task_id + 1],
                 provider)
    IN  [call  |-> r,
         store |-> IF r.error = "none"
                   THEN _update_task_manager(
                            store, PrioritizationAgent_parse_response(r.text))
                   ELSE store]

(* The configurations a PrioritizationAgent is constructed with: one whose
   template uses what prioritize_tasks supplies, one that also wants {task} *)
PrioritizationConfigs ==
    {[prompt |-> <<Lit("prioritize"), Field("task_names"), Field("objective"),
                   Field("next_task_id")>>],
     [prompt |-> <<Lit("prioritize"), Field("task_names"), Field("task")>>]}

-----------------------------------------------------------------------------
(* State *)

NoOutcome == Outcome("none", FALSE, <<>>, <<>>)

(* The record of the most recent operation: its name and arguments, the
   outcome of its completion call, what it returned, and how many tasks the
   store held when it started *)
Last(op, args, call, result, before_len) ==
    [op |-> op, args |-> args, error |-> call.error, sent |-> call.sent,
     prompt |-> call.prompt, response_text |-> call.text,
     result |-> result, before_len |-> before_len]

Fresh == Last("init", <<>>, NoOutcome, <<>>, 0)

ProviderError == [ok |-> FALSE, text |-> <<>>]

(* What the Completion Provider may answer *)
Completions ==
    {ProviderError} \cup {[ok |-> TRUE, text |-> t] : t \in TextsUpTo(Chars, MaxLen)}

NoMatches == [ok |-> TRUE, matches |-> <<>>]

-----------------------------------------------------------------------------
(* The Task Store under the Prioritizer *)

(* An empty store, and a Completion Provider with any one answer *)
InitStore ==
    /\ completion \in Completions
    /\ embedding = [ok |-> TRUE]
    /\ results = NoMatches
    /\ task_list = <<>>
    /\ last = Fresh

(* The caller appends a task to the store *)
AddTask ==
    /\ Len(task_list) < MaxStore
    /\ task_list' = add_task(task_list, SeedTask)
    /\ last' = Last("add_task", <<>>, NoOutcome, <<>>, Len(task_list))
    /\ UNCHANGED <<completion, embedding, results>>

PrioritizeTasks ==
    \E config \in PrioritizationConfigs :
        LET p == prioritize_tasks(config, 1, "objective", task_list, completion)
        IN  /\ task_list' = p.store
            /\ last' = Last("prioritize_tasks", [config |-> config], p.call,
                            <<>>, Len(task_list))
            /\ UNCHANGED <<completion, embedding, results>>

NextPrioritization == AddTask \/ PrioritizeTasks

SpecPrioritization == InitStore /\ [][NextPrioritization]_vars

PrioritizedOk == last.op = "prioritize_tasks" /\ last.error = "none"

(* C1: after prioritize_tasks returns normally the Task Store is exactly the
   sequence of tasks parsed from the response, in parse order; no task the
   store held before survives unless the response names it, and a response
   that parses to nothing leaves the store empty. *)
C1_StoreReplacedByParsedTasks ==
    PrioritizedOk =>
        LET parsed == PrioritizationAgent_parse_response(last.response_text)
        IN  /\ Len(task_list) = Len(parsed)
            /\ \A i \in 1..Len(parsed) : task_list[i] = parsed[i]
            /\ \A i \in 1..Len(task_list) : task_list[i] # SeedTask
            /\ (parsed = <<>> => task_list = <<>>)

(* The store held two tasks, the response parsed to the one task with id "1"
   and name "11", and the store holds exactly that one *)
C1_Witness ==
    /\ PrioritizedOk
    /\ last.before_len = 2
    /\ Len(task_list) = 1
    /\ task_list[1] = [task_id |-> <<49>>, task_name |-> <<49, 49>>]

(* C3 as stated: after a prioritization pass no two tasks of the store have
   the same task_id. *)
C3_NoDuplicateTaskId ==
    PrioritizedOk =>
        \A i, j \in 1..Len(task_list) :
            i # j => task_list[i].task_id # task_list[j].task_id

(* C10: a prioritize_tasks whose completion invocation fails leaves the Task
   Store exactly as it was before the call. *)
C10_FailedPrioritizationKeepsStore ==
    [][(last'.op = "prioritize_tasks" /\ last'.error # "none")
           => task_list' = task_list]_vars

(* The provider failed on a request that was issued while the store held two
   tasks, and both are still there *)
C10_Witness ==
    /\ last.op = "prioritize_tasks"
    /\ last.error = "ProviderError"
    /\ last.sent
    /\ task_list = <<SeedTask, SeedTask>>

-----------------------------------------------------------------------------
(* PrioritizationAgent._parse_response applied to a text *)

ParseResponse ==
    /\ completion.ok
    /\ last' = Last("_parse_response", [response_text |-> completion.text],
                    NoOutcome,
                    PrioritizationAgent_parse_response(completion.text), 0)
    /\ UNCHANGED <<completion, embedding, results, task_list>>

SpecParse == InitStore /\ [][ParseResponse]_vars

(* The text of a line before and after its first "." *)
BeforeDot(line) == SubSeq(line, 1, Find(line, Dot) - 1)
AfterDot(line) == SubSeq(line, Find(line, Dot) + 1, Len(line))

(* The lines C2 says are accepted *)
HasTwoNonEmptyParts(line) ==
    /\ Find(line, Dot) # 0
    /\ Strip(BeforeDot(line)) # <<>>
    /\ Strip(AfterDot(line)) # <<>>

(* C2 as stated: a line yields a task if and only if splitting it on its
   first "." gives two parts that are both non-empty after trimming; the
   task has the trimmed parts as task_id and task_name, every other line is
   dropped, and the tasks keep the order of their lines. *)
C2_TaskIffTwoNonEmptyParts ==
    last.op = "_parse_response" =>
        LET accepted == SelectSeq(Split(last.args.response_text, NL, -1),
                                  HasTwoNonEmptyParts)
        IN  /\ Len(last.result) = Len(accepted)
            /\ \A i \in 1..Len(accepted) :
                   last.result[i] = [task_id   |-> Strip(BeforeDot(accepted[i])),
                                     task_name |-> Strip(AfterDot(accepted[i]))]

-----------------------------------------------------------------------------
(* TaskCreationAgent *)

_get_task_list(store) == [i \in 1..Len(store) |-> store[i].task_name]

(* sep.join(items) *)
RECURSIVE Join(_, _)
Join(items, sep) ==
    IF items = <<>>
    THEN <<>>
    ELSE IF Len(items) = 1
         THEN items[1]
         ELSE items[1] \o sep \o Join(Tail(items), sep)

(* A parse that leaves out the empty segments *)
TaskCreationAgent_parse_response_SkipEmpty(response_text) ==
    LET new_tasks == SelectSeq(Split(response_text, NL, -1),
                               LAMBDA t : t # <<>>)
    IN  [i \in 1..Len(new_tasks) |-> [task_name |-> new_tasks[i]]]

TaskCreationAgent_parse_response(response_text) ==
    LET new_tasks == Split(response_text, NL, -1)
    IN  [i \in 1..Len(new_tasks) |-> [task_name |-> new_tasks[i]]]

(* create_tasks: the outcome of the completion call and the tasks returned
   (nothing is returned when the call raises) *)
create_tasks(config, objective, result, task_description, store, provider) ==
    LET task_list_ == _get_task_list(store)
        r == BaseAgent__call__(
                 config,
                 [objective        |-> objective,
                  result           |-> result,
                  task_description |-> task_description,
                  task_list        |-> Join(task_list_, <<Comma, Space>>)],
                 provider)
    IN  [call   |-> r,
         result |-> IF r.error = "none"
                    THEN TaskCreationAgent_parse_response(r.text)
                    ELSE <<>>]

(* The configurations a TaskCreationAgent is constructed with: one whose
   template uses what create_tasks supplies, one that also wants {context} *)
CreationConfigs ==
    {[prompt |-> <<Lit("create"), Field("objective"), Field("result"),
                   Field("task_description"), Field("task_list")>>],
     [prompt |-> <<Lit("create"), Field("objective"), Field("context")>>]}

CreateTasks ==
    \E config \in CreationConfigs :
        LET c == create_tasks(config, "objective", "result", "description",
                              task_list, completion)
        IN  /\ last' = Last("create_tasks", [config |-> config], c.call,
                            c.result, Len(task_list))
            /\ UNCHANGED <<completion, embedding, results, task_list>>

NextCreation == AddTask \/ CreateTasks

SpecCreation == InitStore /\ [][NextCreation]_vars

CreatedOk == last.op = "create_tasks" /\ last.error = "none"

(* How many times the character c occurs in the text s *)
Count(s, c) == Cardinality({i \in 1..Len(s) : s[i] = c})

(* C4: create_tasks returns one task per newline-delimited segment of the
   response text, in order, each with a task_name equal to its segment and no
   task_id; empty segments are kept.  The response text is what the
   completion invocation returns, the provider's text trimmed. *)
C4_OneTaskPerSegment ==
    CreatedOk =>
        LET names == [i \in 1..Len(last.result) |-> last.result[i].task_name]
        IN  /\ Len(last.result) = Count(last.response_text, NL) + 1
            /\ \A i \in 1..Len(last.result) :
                   /\ DOMAIN last.result[i] = {"task_name"}
                   /\ Count(names[i], NL) = 0
            /\ Join(names, <<NL>>) = last.response_text

(* The provider answers "\f1\n\n1\f": trimmed to "1\n\n1", three segments
   with the middle one empty, it gives three tasks in order *)
C4_Witness ==
    /\ CreatedOk
    /\ completion.text = <<12, 49, NL, NL, 49, 12>>
    /\ last.response_text = <<49, NL, NL, 49>>
    /\ last.result = <<[task_name |-> <<49>>], [task_name |-> <<>>],
                       [task_name |-> <<49>>]>>

(* C5 as stated: an empty response text makes create_tasks return no task. *)
C5_EmptyResponseNoTasks ==
    (CreatedOk /\ last.response_text = <<>>) => last.result = <<>>

-----------------------------------------------------------------------------
(* ContextAgent *)

(* ContextAgent.__init__: the attributes the object has afterwards *)
ContextAgent__init__(config, table_name, n) ==
    [config |-> config, table_name |-> table_name, n |-> n]

(* s[::-1] *)
Reverse(s) == [i \in 1..Len(s) |-> s[Len(s) + 1 - i]]

(* x put into the ascending sequence s after every element not above it *)
RECURSIVE Insert(_, _)
Insert(s, x) ==
    IF s = <<>>
    THEN <<x>>
    ELSE IF x.score < Head(s).score
         THEN <<x>> \o s
         ELSE <<Head(s)>> \o Insert(Tail(s), x)

(* A stable sort by ascending score *)
RECURSIVE SortAscending(_)
SortAscending(s) ==
    IF s = <<>>
    THEN <<>>
    ELSE Insert(SortAscending(SubSeq(s, 1, Len(s) - 1)), s[Len(s)])

(* sorted(s, key=score)[::-1]: descending, but equal scores end up reversed *)
SortedReverse_Flipped(s) == Reverse(SortAscending(s))

(* sorted(s, key=score, reverse=True): list.sort reverses the list, sorts it
   stably in ascending order and reverses it again *)
SortedReverse(s) == Reverse(SortAscending(Reverse(s)))

(* str(value) of a metadata value: text [type |-> "str", v |-> ...] is itself,
   a number [type |-> "int", i |-> ...] becomes its decimal digits *)
Str(value) == IF value.type = "str" THEN value.v ELSE ToString(value.i)

_extract_task_list(ms) ==
    LET sorted_results == SortedReverse(ms)
    IN  [i \in 1..Len(sorted_results) |-> Str(sorted_results[i].metadata.task)]

(* The first n elements of s *)
Take(s, n) == SubSeq(s, 1, IF n < Len(s) THEN n ELSE Len(s))

(* _pinecone_query: reads self.index, then queries with top_k = self.n *)
_pinecone_query(self, index) ==
    IF "index" \notin DOMAIN self
    THEN [error |-> "AttributeError", matches |-> <<>>]
    ELSE IF ~index.ok
         THEN [error |-> "IndexError", matches |-> <<>>]
         ELSE [error |-> "none", matches |-> Take(index.matches, self.n)]

(* get_relevant_tasks(query): the exception raised and the list returned *)
get_relevant_tasks(self, query, embedder, index) ==
    IF ~embedder.ok
    THEN [error |-> "EmbeddingError", result |-> <<>>]
    ELSE LET q == _pinecone_query(self, index)
         IN  IF q.error # "none"
             THEN [error |-> q.error, result |-> <<>>]
             ELSE [error |-> "none", result |-> _extract_task_list(q.matches)]

(* The parameters get_relevant_tasks accepts besides self *)
GetRelevantTasksParams == {"query"}

-----------------------------------------------------------------------------
(* ExecutionAgent *)

ExecutionAgent__init__(config, context_agent) ==
    [config |-> config, context_agent |-> context_agent]

(* execute_task: get_relevant_tasks is called with the keywords query and n *)
execute_task(self, objective, task, n, embedder, index, provider) ==
    IF ~({"query", "n"} \subseteq GetRelevantTasksParams)
    THEN [error |-> "TypeError", call |-> NoOutcome]
    ELSE LET c == get_relevant_tasks(self.context_agent, objective, embedder, index)
         IN  IF c.error # "none"
             THEN [error |-> c.error, call |-> NoOutcome]
             ELSE LET r == BaseAgent__call__(
                               self.config,
                               [objective |-> objective, task |-> task,
                                context |-> c.result],
                               provider)
                  IN  [error |-> r.error, call |-> r]

-----------------------------------------------------------------------------
(* The Context Retriever and the Task Executor *)

(* Similarity scores, in tenths *)
Scores == {3, 5, 9}

(* The "task" metadata values of the Embedding Records *)
TaskValues == {[type |-> "str", v |-> "a"], [type |-> "str", v |-> "b"],
               [type |-> "int", i |-> 7]}

Matches == {[score |-> sc, metadata |-> [task |-> t]] : sc \in Scores, t \in TaskValues}

RECURSIVE SeqsUpTo(_, _)
SeqsUpTo(S, n) ==
    IF n = 0
    THEN {<<>>}
    ELSE LET shorter == SeqsUpTo(S, n - 1)
         IN  shorter \cup {Append(t, x) : t \in shorter, x \in S}

(* The default of the parameter n *)
DefaultN == 5

TheContextAgent == ContextAgent__init__([prompt |-> <<>>], "table", DefaultN)

TheExecutionAgent ==
    ExecutionAgent__init__(
        [prompt |-> <<Lit("execute"), Field("objective"), Field("task"),
                      Field("context")>>],
        TheContextAgent)

InitContext ==
    /\ completion \in {ProviderError, [ok |-> TRUE, text |-> <<Space, 114, NL>>]}
    /\ embedding \in {[ok |-> TRUE], [ok |-> FALSE]}
    /\ results \in {[ok |-> FALSE, matches |-> <<>>]}
                     \cup {[ok |-> TRUE, matches |-> ms] : ms \in SeqsUpTo(Matches, MaxMatches)}
    /\ task_list = <<>>
    /\ last = Fresh

WithError(error) == Outcome(error, FALSE, <<>>, <<>>)

(* ContextAgent._extract_task_list applied to the index's answer *)
ExtractTaskList ==
    /\ results.ok
    /\ last' = Last("_extract_task_list", [matches |-> results.matches],
                    NoOutcome, _extract_task_list(results.matches), 0)
    /\ UNCHANGED <<completion, embedding, results, task_list>>

GetRelevantTasks ==
    LET c == get_relevant_tasks(TheContextAgent, "objective", embedding, results)
    IN  /\ last' = Last("get_relevant_tasks", [query |-> "objective"],
                        WithError(c.error), c.result, 0)
        /\ UNCHANGED <<completion, embedding, results, task_list>>

ExecuteTask ==
    LET e == execute_task(TheExecutionAgent, "objective", "task", DefaultN,
                          embedding, results, completion)
    IN  /\ last' = Last("execute_task", [objective |-> "objective", task |-> "task"],
                        [e.call EXCEPT !.error = e.error], e.call.text, 0)
        /\ UNCHANGED <<completion, embedding, results, task_list>>

NextContext == ExtractTaskList \/ GetRelevantTasks \/ ExecuteTask

SpecContext == InitContext /\ [][NextContext]_vars

AllProvidersSucceed == completion.ok /\ embedding.ok /\ results.ok

(* C6 as stated: when the Embedding Provider, the Vector Index and the
   Completion Provider all succeed, execute_task raises nothing and returns
   the trimmed completion text, having asked the provider with objective,
   task and context. *)
C6_ExecuteTaskReturnsCompletion ==
    (last.op = "execute_task" /\ AllProvidersSucceed) =>
        /\ last.error = "none"
        /\ last.sent
        /\ last.result = Strip(completion.text)

(* Where the match at position i of ms belongs in descending score order with
   ties in the order given: after every match that scores higher and after
   every earlier match that scores the same *)
Rank(ms, i) ==
    1 + Cardinality({j \in 1..Len(ms) :
                        \/ ms[j].score > ms[i].score
                        \/ ms[j].score = ms[i].score /\ j < i})

(* C7: the strings returned are those of the matches in descending score
   order, and matches with equal scores keep the order the index gave. *)
C7_DescendingStable ==
    last.op = "_extract_task_list" =>
        LET ms == last.args.matches
        IN  /\ Len(last.result) = Len(ms)
            /\ \A i \in 1..Len(ms) :
                   last.result[Rank(ms, i)] = Str(ms[i].metadata.task)

(* The lowest score comes first and the two highest tie: the tied two come
   out first in the order given, one of them converted from a number *)
C7_Witness ==
    /\ last.op = "_extract_task_list"
    /\ last.args.matches =
           <<[score |-> 3, metadata |-> [task |-> [type |-> "str", v |-> "a"]]],
             [score |-> 9, metadata |-> [task |-> [type |-> "int", i |-> 7]]],
             [score |-> 9, metadata |-> [task |-> [type |-> "str", v |-> "b"]]]>>
    /\ last.result = <<"7", "b", "a">>

(* C8 as stated: get_relevant_tasks raises nothing when the Vector Index
   returns no match, and returns an empty sequence. *)
C8_NoMatchesEmptyResult ==
    (last.op = "get_relevant_tasks" /\ embedding.ok /\ results.ok
        /\ results.matches = <<>>)
        => (last.error = "none" /\ last.result = <<>>)

-----------------------------------------------------------------------------
(* The completion invocation on its own *)

(* The names a caller may supply, each with its value *)
KwargNames == {"objective", "task", "context"}

Value(name) == name

(* The pieces templates are made of *)
Pieces == {Lit("text")} \cup {Field(n) : n \in KwargNames}

InitCompletion ==
    /\ completion \in {ProviderError, [ok |-> TRUE, text |-> <<>>],
                       [ok |-> TRUE, text |-> <<Space, 114, Space, 114, NL>>]}
    /\ embedding = [ok |-> TRUE]
    /\ results = NoMatches
    /\ task_list = <<>>
    /\ last = Fresh

(* An agent constructed with any template is called with any keywords *)
Call ==
    \E prompt \in SeqsUpTo(Pieces, MaxTemplateLen), names \in SUBSET KwargNames :
        LET config == [prompt |-> prompt]
            kwargs == [n \in names |-> Value(n)]
        IN  /\ last' = Last("__call__", [config |-> config, kwargs |-> kwargs],
                            BaseAgent__call__(config, kwargs, completion),
                            <<>>, 0)
            /\ UNCHANGED <<completion, embedding, results, task_list>>

SpecCompletion == InitCompletion /\ [][Call]_vars

(* The template of the last call names a placeholder its keywords lack *)
MissingPlaceholder ==
    \E i \in 1..Len(last.args.config.prompt) :
        /\ last.args.config.prompt[i].kind = "field"
        /\ last.args.config.prompt[i].v \notin DOMAIN last.args.kwargs

(* C9: a completion invocation whose template requires a placeholder that
   the substitution values lack fails with a template error (KeyError), and
   no request has been issued to the Completion Provider. *)
C9_MissingPlaceholderFailsBeforeRequest ==
    (last.op = "__call__" /\ MissingPlaceholder) =>
        (last.error = "KeyError" /\ ~last.sent)

(* A template requiring {objective} and {task}, given only objective, with a
   provider that would have answered *)
C9_Witness ==
    /\ last.op = "__call__"
    /\ last.args.config.prompt = <<Field("objective"), Field("task")>>
    /\ DOMAIN last.args.kwargs = {"objective"}
    /\ completion.ok
    /\ last.error = "KeyError"
    /\ ~last.sent

====
